---- MODULE Spec2Model ----
(***************************************************************************)
(* A model of BlackJackGame (src/blackjack/game/blackjackgame.py): the     *)
(* roster, the start/stop lifecycle, drawing, turn advancement, the        *)
(* dealer's automation and the evaluation of a round.                      *)
(*                                                                         *)
(* Player, Dealer and Deck live in blackjack.game, outside the file        *)
(* modelled here; they are modelled from the specification's description   *)
(* of the Hand and of the Card Source (value with soft aces, busted,       *)
(* natural blackjack, one card on demand, failure when exhausted).         *)
(*                                                                         *)
(* A card is modelled by its point value (2..10, ACE = 11).  The deck is a *)
(* shuffled shoe of which only the cards that are left and the ranks it    *)
(* holds are known: pick_one_card yields any of its ranks.                 *)
(***************************************************************************)
EXTENDS Integers, Sequences, FiniteSets, TLC

VARIABLES
    players,            \* self.players: the roster, a list of Player objects
    dealer,             \* self.dealer
    running,            \* self.running
    current_player,     \* self._current_player: 0-based index, -1 = dealer
    deck,               \* self.deck
    on_start_handlers,  \* self.__on_start_handlers
    on_stop_handlers,   \* self.__on_stop_handlers
    call,               \* the last operation called and its argument
    raised,             \* the exception the last call ended with, or NoError
    dealt,              \* the give_card calls of the last call, in order
    invoked,            \* the handlers the last call invoked, in order
    paid,               \* the pay calls of the last call, in order
    returned            \* the value the last call returned

game == <<players, dealer, running, current_player, deck,
          on_start_handlers, on_stop_handlers>>
vars == <<players, dealer, running, current_player, deck,
          on_start_handlers, on_stop_handlers,
          call, raised, dealt, invoked, paid, returned>>

----------------------------------------------------------------------------
(* Bounds of the model *)

\* number of distinct user ids the callers of the game scenarios use
MaxIds == 2
\* number of cards in the shoe of the game scenarios
DeckSize == 6
\* number of cards in the shoe of the lifecycle scenarios
LifecycleDeckSize == 9
\* number of cards in the shoe of the round scenarios
RoundDeckSize == 7
\* number of handlers a registry holds at most
MaxHandlers == 2
\* number of players in the rosters evaluation() is applied to
MaxEvalPlayers == 2

(* Program constants *)
MAX_PLAYERS == 5
DEALER_TURN == -1
PRIVILEGED_ID == -1
ACE == 11
DEALER_STANDS_ABOVE == 16
BUST_ABOVE == 21

\* payout factors, in tenths (2.5 is not an integer)
FACTOR_BLACKJACK == 25
FACTOR_WON == 20
FACTOR_TIE == 10

NoError == "none"
NoArg == "no-arg"
None == "None"
DEALER == "Dealer"

\* the ranks of the shoe of the game scenarios
GameRanks == {2, 10}
\* the ranks of the shoe of the round scenarios
RoundRanks == {6, 10, ACE}
\* the ranks of the shoe of the roster scenarios
RosterRanks == {10}
\* the ranks of the hands evaluation() is applied to
EvalRanks == {5, 10, ACE}
\* the handlers callers register: one that returns and one that raises
Handlers == {[name |-> "h_returns", raises |-> FALSE],
             [name |-> "h_raises", raises |-> TRUE]}

----------------------------------------------------------------------------
(* Hand, Player, Dealer (blackjack.game) *)

RECURSIVE SumCards(_)
SumCards(cards) ==
    IF cards = <<>> THEN 0 ELSE Head(cards) + SumCards(Tail(cards))

NumAces(cards) == Cardinality({i \in DOMAIN cards : cards[i] = ACE})

\* an ace counts 11, and 1 as long as the hand would otherwise exceed 21
RECURSIVE SoftAce(_, _)
SoftAce(value, aces) ==
    IF value > BUST_ABOVE /\ aces > 0 THEN SoftAce(value - 10, aces - 1) ELSE value

cardvalue(p) == SoftAce(SumCards(p.cards), NumAces(p.cards))

busted(p) == cardvalue(p) > BUST_ABOVE

has_blackjack(p) == cardvalue(p) = 21 /\ Len(p.cards) = 2

give_card(p, card) == [p EXCEPT !.cards = Append(@, card)]

Player(user_id) == [user_id |-> user_id, cards |-> <<>>]

Dealer == [first_name |-> DEALER, cards |-> <<>>]

(* Deck (blackjack.game) *)

Deck(size, ranks) == [left |-> size, ranks |-> ranks]

deck_is_empty(d) == d.left = 0

\* the cards pick_one_card can return
pick_one_card(d) == d.ranks

deck_after_pick(d) == [d EXCEPT !.left = @ - 1]

----------------------------------------------------------------------------
(* Python list indexing: the 1-based position of index i, 0 for IndexError *)
PyIndex(list, i) ==
    IF 0 <= i /\ i < Len(list) THEN i + 1
    ELSE IF i < 0 /\ 0 - Len(list) <= i THEN Len(list) + i + 1
    ELSE 0

user_ids(list) == {list[i].user_id : i \in DOMAIN list}

----------------------------------------------------------------------------
(* __init__ *)
InitGame(size, ranks) ==
    /\ on_start_handlers = <<>>
    /\ on_stop_handlers = <<>>
    /\ current_player = 0
    /\ players = <<>>
    /\ running = FALSE
    /\ deck = Deck(size, ranks)
    /\ dealer = Dealer
    /\ call = [op |-> "__init__", arg |-> NoArg]
    /\ raised = NoError
    /\ dealt = <<>>
    /\ invoked = <<>>
    /\ paid = <<>>
    /\ returned = None

Init == InitGame(DeckSize, GameRanks)

----------------------------------------------------------------------------
(* The part of the game a dealing loop works on, with the exception that   *)
(* ended the loop.  A seat is a position of players, Len(players) + 1 is   *)
(* the dealer's.                                                           *)
Table ==
    [players |-> players, dealer |-> dealer, deck |-> deck,
     dealt |-> <<>>, raised |-> NoError]

dealer_seat(t) == Len(t.players) + 1

\* the receiver of a card, as the log `dealt` names it
ToDealer == <<"dealer">>

ToPlayer(user_id) == <<"player", user_id>>

receiver(t, seat) ==
    IF seat = dealer_seat(t) THEN ToDealer ELSE ToPlayer(t.players[seat].user_id)

\* card = self.deck.pick_one_card(); participant.give_card(card)
pick_and_give(t, seat, card) ==
    LET given == [t EXCEPT !.deck = deck_after_pick(@),
                           !.dealt = Append(@, [to |-> receiver(t, seat),
                                                card |-> card])]
    IN  IF seat = dealer_seat(t)
        THEN [given EXCEPT !.dealer = give_card(@, card)]
        ELSE [given EXCEPT !.players[seat] = give_card(@, card)]

deck_exhausted(t) == [t EXCEPT !.raised = "DeckExhausted"]

----------------------------------------------------------------------------
(* register_on_start_handler, register_on_stop_handler *)
register_on_start_handler(func) ==
    /\ Len(on_start_handlers) < MaxHandlers
    /\ on_start_handlers' = Append(on_start_handlers, func)
    /\ call' = [op |-> "register_on_start_handler", arg |-> func.name]
    /\ raised' = NoError
    /\ dealt' = <<>> /\ invoked' = <<>> /\ paid' = <<>> /\ returned' = None
    /\ UNCHANGED <<players, dealer, running, current_player, deck, on_stop_handlers>>

register_on_stop_handler(func) ==
    /\ Len(on_stop_handlers) < MaxHandlers
    /\ on_stop_handlers' = Append(on_stop_handlers, func)
    /\ call' = [op |-> "register_on_stop_handler", arg |-> func.name]
    /\ raised' = NoError
    /\ dealt' = <<>> /\ invoked' = <<>> /\ paid' = <<>> /\ returned' = None
    /\ UNCHANGED <<players, dealer, running, current_player, deck, on_start_handlers>>

\* a slip: no try/except around the call of a handler
RECURSIVE run_handlers_uncaught(_)
run_handlers_uncaught(handlers) ==
    IF handlers = <<>> THEN [invoked |-> <<>>, raised |-> NoError]
    ELSE IF Head(handlers).raises
    THEN [invoked |-> <<Head(handlers)>>, raised |-> "HandlerException"]
    ELSE LET rest == run_handlers_uncaught(Tail(handlers))
         IN  [invoked |-> <<Head(handlers)>> \o rest.invoked, raised |-> rest.raised]

(* _run_handlers: the handlers invoked, and the exception that leaves the  *)
(* loop; an exception of a handler is caught and logged                    *)
RECURSIVE run_handlers(_)
run_handlers(handlers) ==
    IF handlers = <<>> THEN [invoked |-> <<>>, raised |-> NoError]
    ELSE LET rest == run_handlers(Tail(handlers))
         IN  [invoked |-> <<Head(handlers)>> \o rest.invoked, raised |-> rest.raised]

----------------------------------------------------------------------------
(* start *)
\* a slip: the check of self.running is missing
start_raises_unless_empty ==
    IF Len(players) < 1 THEN "NotEnoughPlayersException" ELSE NoError

start_raises ==
    IF running THEN "GameAlreadyRunningException"
    ELSE IF Len(players) < 1 THEN "NotEnoughPlayersException"
    ELSE NoError

\* a slip in the order: two cards to one participant, then to the next
deal_order_two_each(t) ==
    [k \in 1..(2 * dealer_seat(t)) |-> (k + 1) \div 2]

\* (self.players + [self.dealer]) * 2, as seats
deal_order(t) ==
    LET seats == [i \in 1..dealer_seat(t) |-> i] IN seats \o seats

\* for player in ...: card = self.deck.pick_one_card(); player.give_card(card)
RECURSIVE deal_loop(_, _)
deal_loop(t, order) ==
    IF order = <<>> THEN {t}
    ELSE IF deck_is_empty(t.deck) THEN {deck_exhausted(t)}
    ELSE UNION {deal_loop(pick_and_give(t, Head(order), card), Tail(order)) :
                    card \in pick_one_card(t.deck)}

start ==
    /\ call' = [op |-> "start", arg |-> NoArg]
    /\ paid' = <<>> /\ returned' = None
    /\ UNCHANGED <<current_player, on_start_handlers, on_stop_handlers>>
    /\ IF start_raises # NoError
       THEN /\ raised' = start_raises
            /\ dealt' = <<>> /\ invoked' = <<>>
            /\ UNCHANGED <<players, dealer, running, deck>>
       ELSE \E t \in deal_loop(Table, deal_order(Table)) :
            /\ running' = TRUE
            /\ players' = t.players
            /\ dealer' = t.dealer
            /\ deck' = t.deck
            /\ dealt' = t.dealt
            /\ IF t.raised # NoError
               THEN raised' = t.raised /\ invoked' = <<>>
               ELSE LET h == run_handlers(on_start_handlers)
                    IN  raised' = h.raised /\ invoked' = h.invoked

----------------------------------------------------------------------------
(* stop *)
\* a slip in the order of the condition: players[0] is read before the
\* privileged id is looked at
stop_raises_owner_first(user_id) ==
    IF PyIndex(players, 0) = 0 THEN "IndexError"
    ELSE IF user_id # players[PyIndex(players, 0)].user_id /\ user_id # PRIVILEGED_ID
         THEN "NameError"
         ELSE NoError

stop_raises(user_id) ==
    IF user_id # PRIVILEGED_ID
    THEN IF PyIndex(players, 0) = 0 THEN "IndexError"
         ELSE IF user_id # players[PyIndex(players, 0)].user_id
              \* InsufficientPermissionsException is not among the imports
              THEN "NameError"
              ELSE NoError
    ELSE NoError

stop(user_id) ==
    /\ call' = [op |-> "stop", arg |-> user_id]
    /\ dealt' = <<>> /\ paid' = <<>> /\ returned' = None
    /\ UNCHANGED <<players, dealer, current_player, deck,
                   on_start_handlers, on_stop_handlers>>
    /\ IF stop_raises(user_id) # NoError
       THEN /\ raised' = stop_raises(user_id)
            /\ invoked' = <<>>
            /\ UNCHANGED running
       ELSE LET h == run_handlers(on_stop_handlers)
            IN  /\ running' = FALSE
                /\ raised' = h.raised
                /\ invoked' = h.invoked

----------------------------------------------------------------------------
(* get_current_player: the seat of self.players[self._current_player],     *)
(* 0 for IndexError                                                        *)
get_current_player == PyIndex(players, current_player)

(* add_player *)
\* a slip in the order of the checks: the duplicate is looked for before the
\* roster's size
add_player_raises_duplicate_first(user_id) ==
    IF running THEN "GameAlreadyRunningException"
    ELSE IF user_id \in user_ids(players) THEN "PlayerAlreadyExistingException"
    ELSE IF Len(players) >= MAX_PLAYERS THEN "MaxPlayersReachedException"
    ELSE NoError

\* a slip in the duplicate check: only the first player's id is looked at
add_player_raises_first_only(user_id) ==
    IF running THEN "GameAlreadyRunningException"
    ELSE IF Len(players) >= MAX_PLAYERS THEN "MaxPlayersReachedException"
    ELSE IF players # <<>> /\ user_id = players[1].user_id
         THEN "PlayerAlreadyExistingException"
    ELSE NoError

\* a slip in the comparison: the roster is full above MAX_PLAYERS only
add_player_raises_above_max(user_id) ==
    IF running THEN "GameAlreadyRunningException"
    ELSE IF Len(players) > MAX_PLAYERS THEN "MaxPlayersReachedException"
    ELSE IF user_id \in user_ids(players) THEN "PlayerAlreadyExistingException"
    ELSE NoError

add_player_raises(user_id) ==
    IF running THEN "GameAlreadyRunningException"
    ELSE IF Len(players) >= MAX_PLAYERS THEN "MaxPlayersReachedException"
    ELSE IF user_id \in user_ids(players) THEN "PlayerAlreadyExistingException"
    ELSE NoError

add_player(user_id) ==
    /\ call' = [op |-> "add_player", arg |-> user_id]
    /\ raised' = add_player_raises(user_id)
    /\ players' = IF add_player_raises(user_id) = NoError
                  THEN Append(players, Player(user_id))
                  ELSE players
    /\ dealt' = <<>> /\ invoked' = <<>> /\ paid' = <<>> /\ returned' = None
    /\ UNCHANGED <<dealer, running, current_player, deck,
                   on_start_handlers, on_stop_handlers>>

----------------------------------------------------------------------------
(* draw_card *)
\* a slip in the comparison: a hand of 21 counts as busted
draw_raises_from_21(player) ==
    IF cardvalue(player) >= BUST_ABOVE THEN "PlayerBustedException" ELSE NoError

\* if player.cardvalue > 21: raise PlayerBustedException
draw_raises(player) ==
    IF cardvalue(player) > BUST_ABOVE THEN "PlayerBustedException" ELSE NoError

draw_card ==
    /\ call' = [op |-> "draw_card", arg |-> NoArg]
    /\ invoked' = <<>> /\ paid' = <<>> /\ returned' = None
    /\ UNCHANGED <<dealer, running, current_player,
                   on_start_handlers, on_stop_handlers>>
    /\ IF ~running
       THEN /\ raised' = "GameNotRunningException"
            /\ dealt' = <<>>
            /\ UNCHANGED <<players, deck>>
       ELSE IF get_current_player = 0
       THEN /\ raised' = "IndexError"
            /\ dealt' = <<>>
            /\ UNCHANGED <<players, deck>>
       ELSE IF deck_is_empty(deck)
       THEN /\ raised' = "DeckExhausted"
            /\ dealt' = <<>>
            /\ UNCHANGED <<players, deck>>
       ELSE \E card \in pick_one_card(deck) :
            LET seat == get_current_player
                t == pick_and_give(Table, seat, card)
            IN  /\ players' = t.players
                /\ deck' = t.deck
                /\ dealt' = t.dealt
                /\ raised' = draw_raises(t.players[seat])

----------------------------------------------------------------------------
(* dealers_turn *)
\* a slip in the comparison: the dealer stands on 16
RECURSIVE dealers_loop_below_16(_)
dealers_loop_below_16(t) ==
    IF cardvalue(t.dealer) < DEALER_STANDS_ABOVE
    THEN IF deck_is_empty(t.deck) THEN {deck_exhausted(t)}
         ELSE UNION {dealers_loop_below_16(pick_and_give(t, dealer_seat(t), card)) :
                         card \in pick_one_card(t.deck)}
    ELSE {t}

\* while self.dealer.cardvalue <= 16: pick a card and give it to the dealer
RECURSIVE dealers_loop(_)
dealers_loop(t) ==
    IF cardvalue(t.dealer) <= DEALER_STANDS_ABOVE
    THEN IF deck_is_empty(t.deck) THEN {deck_exhausted(t)}
         ELSE UNION {dealers_loop(pick_and_give(t, dealer_seat(t), card)) :
                         card \in pick_one_card(t.deck)}
    ELSE {t}

\* a slip: the check of self.running is missing
dealers_turn_runs_unchecked == dealers_loop(Table)

\* the outcomes of a call of dealers_turn
dealers_turn_runs ==
    IF ~running
    THEN {[Table EXCEPT !.raised = "GameNotRunningException"]}
    ELSE dealers_loop(Table)

dealers_turn ==
    /\ call' = [op |-> "dealers_turn", arg |-> NoArg]
    /\ invoked' = <<>> /\ paid' = <<>> /\ returned' = None
    /\ UNCHANGED <<players, running, current_player,
                   on_start_handlers, on_stop_handlers>>
    /\ \E t \in dealers_turn_runs :
            /\ dealer' = t.dealer
            /\ deck' = t.deck
            /\ dealt' = t.dealt
            /\ raised' = t.raised

(* next_player *)
\* a slip in the bound: the cursor moves on from the last player
advances_past_last ==
    current_player # DEALER_TURN /\ current_player < Len(players)

\* a slip: the dealer's turn is not told from a player's
advances_from_dealer == current_player < Len(players) - 1

\* if self._current_player != -1 and self._current_player < (len(self.players) - 1)
advances ==
    current_player # DEALER_TURN /\ current_player < Len(players) - 1

next_player ==
    /\ call' = [op |-> "next_player", arg |-> NoArg]
    /\ invoked' = <<>> /\ paid' = <<>> /\ returned' = None
    /\ UNCHANGED <<players, running, on_start_handlers, on_stop_handlers>>
    /\ IF ~running
       THEN /\ raised' = "GameNotRunningException"
            /\ dealt' = <<>>
            /\ UNCHANGED <<dealer, deck, current_player>>
       ELSE IF advances
       THEN /\ current_player' = current_player + 1
            /\ raised' = NoError
            /\ dealt' = <<>>
            /\ UNCHANGED <<dealer, deck>>
       ELSE /\ current_player' = DEALER_TURN
            /\ \E t \in dealers_turn_runs :
                    /\ dealer' = t.dealer
                    /\ deck' = t.deck
                    /\ dealt' = t.dealt
                    /\ raised' = t.raised

----------------------------------------------------------------------------
(* _sort_list: sorted(player_list, key=cardvalue, reverse=True), a stable  *)
(* sort: players of equal value keep their order                           *)
\* a slip in the comparison: a player is put before the players of equal
\* value, which reverses their order
RECURSIVE insert_before_equal(_, _)
insert_before_equal(list, p) ==
    IF list = <<>> THEN <<p>>
    ELSE IF cardvalue(Head(list)) > cardvalue(p)
         THEN <<Head(list)>> \o insert_before_equal(Tail(list), p)
         ELSE <<p>> \o list

RECURSIVE insert_by_value(_, _)
insert_by_value(list, p) ==
    IF list = <<>> THEN <<p>>
    ELSE IF cardvalue(Head(list)) >= cardvalue(p)
         THEN <<Head(list)>> \o insert_by_value(Tail(list), p)
         ELSE <<p>> \o list

RECURSIVE sort_list(_)
sort_list(player_list) ==
    IF player_list = <<>> THEN <<>>
    ELSE insert_by_value(sort_list(SubSeq(player_list, 1, Len(player_list) - 1)),
                         player_list[Len(player_list)])

(* evaluation *)
list_busted == SelectSeq(players, busted)

\* a slip in the comparison: a player who holds 21 is in neither list
not_busted_below_21(p) == cardvalue(p) < BUST_ABOVE

not_busted(p) == cardvalue(p) <= BUST_ABOVE

list_not_busted == SelectSeq(players, not_busted)

NoList == "none"

\* a slip in the precedence: the dealer's natural blackjack is not looked at
settle_without_blackjack(player) ==
    IF busted(dealer)
    THEN IF has_blackjack(player)
         THEN [list |-> "won", pays |-> <<FACTOR_BLACKJACK>>]
         ELSE [list |-> "won", pays |-> <<FACTOR_WON>>]
    ELSE IF cardvalue(player) > cardvalue(dealer)
    THEN [list |-> "won", pays |-> <<FACTOR_WON>>]
    ELSE IF cardvalue(player) = cardvalue(dealer)
    THEN [list |-> "tie", pays |-> <<FACTOR_TIE>>]
    ELSE [list |-> "lost", pays |-> <<>>]

\* a slip in the payout: a natural blackjack pays 3:2 against any dealer
settle_blackjack_always_pays(player) ==
    IF busted(dealer)
    THEN IF has_blackjack(player)
         THEN [list |-> "won", pays |-> <<FACTOR_BLACKJACK>>]
         ELSE [list |-> "won", pays |-> <<FACTOR_WON>>]
    ELSE IF has_blackjack(dealer)
    THEN IF has_blackjack(player)
         THEN [list |-> "tie", pays |-> <<FACTOR_TIE>>]
         ELSE [list |-> "lost", pays |-> <<>>]
    ELSE IF cardvalue(player) > cardvalue(dealer)
    THEN IF has_blackjack(player)
         THEN [list |-> "won", pays |-> <<FACTOR_BLACKJACK>>]
         ELSE [list |-> "won", pays |-> <<FACTOR_WON>>]
    ELSE IF cardvalue(player) = cardvalue(dealer)
    THEN [list |-> "tie", pays |-> <<FACTOR_TIE>>]
    ELSE [list |-> "lost", pays |-> <<>>]

\* the list a player who is not busted is appended to, and the factors of
\* the pay calls made for the player
settle(player) ==
    IF busted(dealer)
    THEN IF has_blackjack(player)
         THEN [list |-> "won", pays |-> <<FACTOR_BLACKJACK>>]
         ELSE [list |-> "won", pays |-> <<FACTOR_WON>>]
    ELSE IF has_blackjack(dealer)
    THEN IF has_blackjack(player)
         THEN [list |-> "tie", pays |-> <<FACTOR_TIE>>]
         ELSE [list |-> "lost", pays |-> <<>>]
    ELSE IF cardvalue(dealer) <= BUST_ABOVE
    THEN IF cardvalue(player) > cardvalue(dealer)
         THEN [list |-> "won", pays |-> <<FACTOR_WON>>]
         ELSE IF cardvalue(player) = cardvalue(dealer)
         THEN [list |-> "tie", pays |-> <<FACTOR_TIE>>]
         ELSE IF cardvalue(player) < cardvalue(dealer)
         THEN [list |-> "lost", pays |-> <<>>]
         ELSE [list |-> NoList, pays |-> <<>>]
    ELSE [list |-> NoList, pays |-> <<>>]

\* for player in list_not_busted: pay and append
RECURSIVE settle_loop(_, _)
settle_loop(e, list) ==
    IF list = <<>> THEN e
    ELSE LET player == Head(list)
             s == settle(player)
             listed == IF s.list = NoList THEN e
                       ELSE [e EXCEPT ![s.list] = Append(@, player)]
             payed == [listed EXCEPT !.paid =
                          @ \o [k \in DOMAIN s.pays |->
                                    [player |-> player.user_id, factor |-> s.pays[k]]]]
         IN  settle_loop(payed, Tail(list))

evaluated ==
    LET e == settle_loop([won |-> <<>>, tie |-> <<>>, lost |-> <<>>, paid |-> <<>>],
                         list_not_busted)
    IN  [won |-> sort_list(e.won),
         tie |-> sort_list(e.tie),
         lost |-> sort_list(e.lost \o list_busted),
         paid |-> e.paid]

evaluation ==
    /\ call' = [op |-> "evaluation", arg |-> NoArg]
    /\ raised' = NoError
    /\ returned' = [won |-> evaluated.won, tie |-> evaluated.tie,
                    lost |-> evaluated.lost]
    /\ paid' = evaluated.paid
    /\ dealt' = <<>> /\ invoked' = <<>>
    /\ UNCHANGED game

----------------------------------------------------------------------------
(* The calls of a caller who uses the user ids `ids`: on the roster and   *)
(* the lifecycle, and on the turns of a round                              *)
RosterCalls(ids) ==
    \/ \E user_id \in ids : add_player(user_id)
    \/ start
    \/ \E user_id \in ids \cup {PRIVILEGED_ID} : stop(user_id)

TurnCalls ==
    \/ draw_card
    \/ next_player
    \/ dealers_turn
    \/ evaluation

Calls(ids) == RosterCalls(ids) \/ TurnCalls

(* The registrations of handlers *)
Registrations ==
    \/ \E func \in Handlers : register_on_start_handler(func)
    \/ \E func \in Handlers : register_on_stop_handler(func)

(* The game: callers with MaxIds user ids, a shoe of DeckSize cards of the *)
(* ranks GameRanks                                                         *)
Next == Calls(1..MaxIds)

Spec == Init /\ [][Next]_vars

(* The roster: callers with one user id more than the roster can hold, and *)
(* a shoe of tens that holds one deal for a full roster                    *)
InitRoster == InitGame(2 * (MAX_PLAYERS + 1), RosterRanks)

NextRoster == RosterCalls(1..(MAX_PLAYERS + 1))

SpecRoster == InitRoster /\ [][NextRoster]_vars

(* The lifecycle: callers with MaxIds user ids who register handlers and   *)
(* start and stop the game, and a shoe of tens of LifecycleDeckSize cards  *)
InitLifecycle == InitGame(LifecycleDeckSize, RosterRanks)

NextLifecycle == RosterCalls(1..MaxIds) \/ Registrations

SpecLifecycle == InitLifecycle /\ [][NextLifecycle]_vars

(* The turns: callers with MaxIds user ids who make every call of the game *)
(* and register no handler, and a shoe of tens of LifecycleDeckSize cards  *)
NextTurns == Calls(1..MaxIds)

SpecTurns == InitLifecycle /\ [][NextTurns]_vars

(* The round: a game whose roster holds the players 1..n, n up to MaxIds,  *)
(* as n calls of add_player leave it; the callers start it and play one    *)
(* round; a shoe of RoundDeckSize cards of the ranks RoundRanks            *)
InitRound ==
    \E n \in 1..MaxIds :
        /\ on_start_handlers = <<>>
        /\ on_stop_handlers = <<>>
        /\ current_player = 0
        /\ players = [i \in 1..n |-> Player(i)]
        /\ running = FALSE
        /\ deck = Deck(RoundDeckSize, RoundRanks)
        /\ dealer = Dealer
        /\ call = [op |-> "add_player", arg |-> n]
        /\ raised = NoError
        /\ dealt = <<>>
        /\ invoked = <<>>
        /\ paid = <<>>
        /\ returned = None

NextRound ==
    \/ start
    \/ draw_card
    \/ next_player
    \/ dealers_turn

SpecRound == InitRound /\ [][NextRound]_vars

(* The evaluation: a round played to its end, the shoe used up, in which  *)
(* up to MaxEvalPlayers players and the dealer hold any two or three cards *)
(* of the ranks EvalRanks.  The value of a hand does not depend on the     *)
(* order of its cards: the hands are taken in one order, the ascending one.*)
EvalHands ==
    {h \in [1..2 -> EvalRanks] \cup [1..3 -> EvalRanks] :
        \A i \in 1..(Len(h) - 1) : h[i] <= h[i + 1]}

InitEval ==
    \E n \in 0..MaxEvalPlayers :
    \E hands \in [1..n -> EvalHands] :
    \E dealers \in EvalHands :
        /\ on_start_handlers = <<>>
        /\ on_stop_handlers = <<>>
        /\ current_player = DEALER_TURN
        /\ players = [i \in 1..n |-> [user_id |-> i, cards |-> hands[i]]]
        /\ running = (n > 0)
        /\ deck = Deck(0, EvalRanks)
        /\ dealer = [first_name |-> DEALER, cards |-> dealers]
        /\ call = [op |-> "next_player", arg |-> NoArg]
        /\ raised = NoError
        /\ dealt = <<>>
        /\ invoked = <<>>
        /\ paid = <<>>
        /\ returned = None

NextEval == evaluation

SpecEval == InitEval /\ [][NextEval]_vars

----------------------------------------------------------------------------
(* Properties of evaluation *)

Evaluated == call.op = "evaluation"

InList(list, p) == \E i \in DOMAIN list : list[i] = p

Occurrences(list, p) == Cardinality({i \in DOMAIN list : list[i] = p})

Natural(p) == cardvalue(p) = 21 /\ Len(p.cards) = 2

PaidTo(p) == {i \in DOMAIN paid : paid[i].player = p.user_id}

\* C1: evaluation() classifies every player by the three-branch rule: a
\* busted player is in lost whatever the dealer holds; if the dealer is
\* busted every player who is not busted is in won; else if the dealer holds
\* a natural blackjack such a player is in tie with a natural blackjack and in
\* lost without; else the player is in won with a value greater than the
\* dealer's, in tie with an equal one and in lost with a smaller one.
C1_Classification ==
    Evaluated =>
        \A i \in DOMAIN players :
            LET p == players[i]
                v == cardvalue(p)
                d == cardvalue(dealer)
            IN  /\ v > 21 => InList(returned.lost, p)
                /\ v <= 21 /\ d > 21 => InList(returned.won, p)
                /\ v <= 21 /\ d <= 21 /\ Natural(dealer) =>
                        IF Natural(p) THEN InList(returned.tie, p)
                                      ELSE InList(returned.lost, p)
                /\ v <= 21 /\ d <= 21 /\ ~Natural(dealer) =>
                        /\ v > d => InList(returned.won, p)
                        /\ v = d => InList(returned.tie, p)
                        /\ v < d => InList(returned.lost, p)

\* the dealer holds a natural blackjack; one player ties with a natural
\* blackjack, the other loses with 21 on three cards
C1_Witness ==
    /\ Evaluated
    /\ Natural(dealer)
    /\ Len(players) = 2
    /\ Natural(players[1]) /\ returned.tie = <<players[1]>>
    /\ cardvalue(players[2]) = 21 /\ returned.lost = <<players[2]>>

\* C2: in one call of evaluation() every player is paid at most once; a
\* player in won is paid factor 2.5 when the dealer is busted and the player
\* holds a natural blackjack and factor 2 otherwise; a player in tie is paid
\* factor 1; a player in lost is not paid.
C2_Payout ==
    Evaluated =>
        \A i \in DOMAIN players :
            LET p == players[i]
                factors == {paid[k].factor : k \in PaidTo(p)}
            IN  /\ Cardinality(PaidTo(p)) <= 1
                /\ InList(returned.won, p) =>
                        factors = {IF cardvalue(dealer) > 21 /\ Natural(p)
                                   THEN 25 ELSE 20}
                /\ InList(returned.tie, p) => factors = {10}
                /\ InList(returned.lost, p) => factors = {}

\* the dealer holds 20: a player wins with a natural blackjack, paid factor 2,
\* and a busted player is not paid
C2_Witness ==
    /\ Evaluated
    /\ cardvalue(dealer) = 20
    /\ Len(players) = 2
    /\ Natural(players[1]) /\ returned.won = <<players[1]>>
    /\ cardvalue(players[2]) > 21 /\ returned.lost = <<players[2]>>
    /\ paid = <<[player |-> players[1].user_id, factor |-> 20]>>

\* C3: the three lists evaluation() returns are pairwise disjoint and hold
\* every player of the roster exactly once, and nobody else.
C3_Partition ==
    Evaluated =>
        LET all == returned.won \o returned.tie \o returned.lost
        IN  /\ \A i \in DOMAIN players : Occurrences(all, players[i]) = 1
            /\ \A k \in DOMAIN all : InList(players, all[k])

\* a player with 21 on three cards wins against a dealer with 20, a busted
\* player loses
C3_Witness ==
    /\ Evaluated
    /\ cardvalue(dealer) = 20
    /\ Len(players) = 2
    /\ cardvalue(players[1]) > 21 /\ returned.lost = <<players[1]>>
    /\ cardvalue(players[2]) = 21 /\ ~Natural(players[2])
    /\ returned.won = <<players[2]>>
    /\ returned.tie = <<>>

----------------------------------------------------------------------------
(* Properties of add_player *)

AddPlayerCalled == call'.op = "add_player"

\* C4: add_player has a fixed error precedence and never mutates the roster
\* on failure: GameAlreadyRunning if the game is running; otherwise
\* MaxPlayersReached if the roster has MAX_PLAYERS players; otherwise
\* PlayerAlreadyExists if the id is in the roster; in each failing case the
\* roster is what it was before the call.
C4_ErrorPrecedence ==
    [][AddPlayerCalled =>
        /\ running => raised' = "GameAlreadyRunningException"
        /\ ~running /\ Len(players) >= 5 =>
                raised' = "MaxPlayersReachedException"
        /\ ~running /\ Len(players) < 5 /\ call'.arg \in user_ids(players) =>
                raised' = "PlayerAlreadyExistingException"
        /\ raised' # NoError => players' = players]_vars

\* a full roster, not running: an id of the roster is refused for the
\* roster's size
C4_Witness ==
    /\ call.op = "add_player"
    /\ ~running
    /\ Len(players) = 5
    /\ call.arg \in user_ids(players)
    /\ raised = "MaxPlayersReachedException"

\* C5 as stated: add_player with an id that is already in the roster always
\* fails with PlayerAlreadyExists and leaves the roster as it was.
C5_AlwaysPlayerAlreadyExists ==
    [][AddPlayerCalled /\ call'.arg \in user_ids(players) =>
        /\ raised' = "PlayerAlreadyExistingException"
        /\ players' = players]_vars

\* C5, amended: add_player with an id that is already in the roster always
\* fails and leaves the roster as it was; it fails with PlayerAlreadyExists
\* when the game is not running and the roster has fewer than MAX_PLAYERS
\* players.
C5_DuplicateRefused ==
    [][AddPlayerCalled /\ call'.arg \in user_ids(players) =>
        /\ raised' # NoError
        /\ players' = players
        /\ ~running /\ Len(players) < 5 =>
                raised' = "PlayerAlreadyExistingException"]_vars

\* the id of the second of three players is refused as a duplicate
C5_Witness ==
    /\ call.op = "add_player"
    /\ ~running
    /\ Len(players) = 3
    /\ call.arg = players[2].user_id
    /\ raised = "PlayerAlreadyExistingException"

----------------------------------------------------------------------------
(* Properties of start and stop *)

StartCalled == call'.op = "start"

StopCalled == call'.op = "stop"

\* the cards the log gives to one receiver, in order
RECURSIVE CardsGiven(_, _)
CardsGiven(log, to) ==
    IF log = <<>> THEN <<>>
    ELSE IF Head(log).to = to
         THEN <<Head(log).card>> \o CardsGiven(Tail(log), to)
         ELSE CardsGiven(Tail(log), to)

\* C6: start() fails with GameAlreadyRunning when the game is running and
\* with NotEnoughPlayers when the roster is empty, and in both failing cases
\* it changes nothing: running keeps its value, no card is taken from the
\* deck, no hand changes and no start-handler is invoked.
C6_StartFails ==
    [][StartCalled =>
        /\ running => raised' = "GameAlreadyRunningException"
        /\ ~running /\ players = <<>> => raised' = "NotEnoughPlayersException"
        /\ running \/ players = <<>> =>
                /\ running' = running
                /\ deck' = deck
                /\ players' = players
                /\ dealer' = dealer
                /\ dealt' = <<>>
                /\ invoked' = <<>>
                /\ current_player' = current_player]_vars

\* start() is refused in a running game that has a start-handler and cards
\* left in the shoe
C6_Witness ==
    /\ call.op = "start"
    /\ raised = "GameAlreadyRunningException"
    /\ running
    /\ on_start_handlers # <<>>
    /\ deck.left >= 4
    /\ invoked = <<>>

\* C7 as stated: after every successful start(), the first one and any that
\* follows a stop() of an earlier round, every player and the dealer hold
\* exactly two cards, the two dealt by this start().
C7_TwoCardsAfterStart ==
    call.op = "start" /\ raised = NoError =>
        /\ \A i \in DOMAIN players :
                /\ Len(players[i].cards) = 2
                /\ players[i].cards = CardsGiven(dealt, ToPlayer(players[i].user_id))
        /\ Len(dealer.cards) = 2
        /\ dealer.cards = CardsGiven(dealt, ToDealer)

\* C8: stop(-1) succeeds in every reachable state, whatever the roster and
\* whether the game runs or not: it raises no error, leaves running false and
\* invokes the stop-handlers.
C8_PrivilegedStop ==
    [][StopCalled /\ call'.arg = -1 =>
        /\ raised' = NoError
        /\ running' = FALSE
        /\ invoked' = on_stop_handlers]_vars

\* stop(-1) on an empty roster, with a stop-handler that raises
C8_Witness ==
    /\ call = [op |-> "stop", arg |-> -1]
    /\ players = <<>>
    /\ raised = NoError
    /\ ~running
    /\ Len(invoked) = 1 /\ invoked[1].raises

\* C9 as stated: stop(id) with an id that is neither -1 nor the first
\* player's id fails with InsufficientPermissions (also when the roster is
\* empty); running keeps its value and no stop-handler is invoked.
C9_InsufficientPermissions ==
    [][/\ StopCalled
       /\ call'.arg # -1
       /\ (players = <<>> \/ call'.arg # players[1].user_id)
       => /\ raised' = "InsufficientPermissionsException"
          /\ running' = running
          /\ invoked' = <<>>]_vars

----------------------------------------------------------------------------
(* Properties of the calls of a round *)

\* C10: when the game is not running, draw_card, next_player and
\* dealers_turn each fail with GameNotRunning and change nothing: no card is
\* taken from the deck, no hand changes and the turn cursor keeps its value.
C10_NotRunning ==
    [][call'.op \in {"draw_card", "next_player", "dealers_turn"} /\ ~running =>
        /\ raised' = "GameNotRunningException"
        /\ deck' = deck
        /\ dealt' = <<>>
        /\ players' = players
        /\ dealer' = dealer
        /\ current_player' = current_player
        /\ running' = running]_vars

\* next_player is refused in a stopped round: the hands hold the cards of
\* the round, the shoe is not empty, the cursor is on the first player
C10_Witness ==
    /\ call.op = "next_player"
    /\ raised = "GameNotRunningException"
    /\ ~running
    /\ players # <<>>
    /\ Len(dealer.cards) = 2
    /\ deck.left > 0
    /\ current_player = 0

----------------------------------------------------------------------------
(* Properties of draw_card *)

DrawCalled == call'.op = "draw_card"

\* C11: in a running game with the cursor on a player (and a card left in
\* the shoe), draw_card takes exactly one card from the deck and adds it to
\* the current player's hand only; no other hand and not the cursor changes;
\* it fails with PlayerBusted exactly when the hand's value after adding the
\* card is greater than 21, and the card stays in the hand.
C11_DrawCard ==
    [][DrawCalled /\ running /\ current_player # -1 /\ deck.left > 0 =>
        LET seat == current_player + 1
        IN  /\ deck'.left = deck.left - 1
            /\ Len(dealt') = 1
            /\ dealt'[1].to = ToPlayer(players[seat].user_id)
            /\ Len(players') = Len(players)
            /\ players'[seat].cards = Append(players[seat].cards, dealt'[1].card)
            /\ \A i \in DOMAIN players : i # seat => players'[i] = players[i]
            /\ dealer' = dealer
            /\ current_player' = current_player
            /\ raised' \in {NoError, "PlayerBustedException"}
            /\ (raised' = "PlayerBustedException")
                    <=> (cardvalue(players'[seat]) > 21)]_vars

\* the second player draws a third card and busts with 22; the card is the
\* last of the hand
C11_Witness ==
    /\ call.op = "draw_card"
    /\ raised = "PlayerBustedException"
    /\ running
    /\ current_player = 1
    /\ Len(players) = 2
    /\ Len(players[2].cards) = 3
    /\ cardvalue(players[2]) = 22
    /\ players[2].cards[3] = dealt[1].card
    /\ Len(players[1].cards) = 2

----------------------------------------------------------------------------
(* Properties of next_player and of the dealer's automation *)

NextPlayerCalled == call'.op = "next_player"

\* the cards of a log, in order
LogCards(log) == [k \in DOMAIN log |-> log[k].card]

\* the dealer's automation ran in the step: every card of the step went to
\* the dealer, who drew at least once from a value of 16 or less unless the
\* shoe was empty, and who stands above 16 if the automation came to its end
DealerAutomationRan ==
    /\ \A k \in DOMAIN dealt' : dealt'[k].to = ToDealer
    /\ dealer'.cards = dealer.cards \o LogCards(dealt')
    /\ deck'.left = deck.left - Len(dealt')
    /\ cardvalue(dealer) <= 16 /\ deck.left > 0 => Len(dealt') >= 1
    /\ raised' = NoError => cardvalue(dealer') > 16

\* C12: starting from cursor 0 with N players, N calls of next_player land
\* on the dealer sentinel: in a running game a call with the cursor on a
\* player before the last moves the cursor one forward and touches neither
\* the dealer's hand nor the shoe (the first N-1 calls), a call with the
\* cursor on the last player sets the sentinel and runs the dealer's
\* automation (the N-th call), and no other call moves the cursor.
C12_NextPlayer ==
    [][/\ NextPlayerCalled /\ running /\ current_player \in 0..(Len(players) - 1) =>
            IF current_player < Len(players) - 1
            THEN /\ current_player' = current_player + 1
                 /\ dealer' = dealer
                 /\ deck' = deck
                 /\ dealt' = <<>>
                 /\ players' = players
                 /\ raised' = NoError
            ELSE /\ current_player' = -1
                 /\ players' = players
                 /\ DealerAutomationRan
       /\ ~NextPlayerCalled => current_player' = current_player]_vars

\* two players: the second call of next_player lands on the sentinel, and
\* the dealer has drawn a third card and stands above 16
C12_Witness ==
    /\ call.op = "next_player"
    /\ raised = NoError
    /\ running
    /\ Len(players) = 2
    /\ current_player = -1
    /\ Len(dealt) = 1
    /\ Len(dealer.cards) = 3
    /\ cardvalue(dealer) > 16

----------------------------------------------------------------------------
(* Properties of the dealer sentinel *)

\* C13: when the cursor is the dealer sentinel, get_current_player returns
\* no participant, so draw_card adds a card to no player's hand.
C13_NoDrawAtSentinel ==
    [][DrawCalled /\ running /\ current_player = -1 =>
        /\ get_current_player = 0
        /\ players' = players]_vars

\* what the code does at the sentinel: players[-1] is the last player of the
\* roster, and draw_card gives the card to that player
C13_DrawAtSentinel ==
    [][DrawCalled /\ running /\ current_player = -1 /\ deck.left > 0 =>
        /\ get_current_player = Len(players)
        /\ players'[Len(players)].cards
                = Append(players[Len(players)].cards, dealt'[1].card)]_vars

----------------------------------------------------------------------------
(* Properties of dealers_turn *)

DealersTurnCalled == call'.op = "dealers_turn"

\* the value of the dealer's hand before the k-th card of the step
ValueBefore(k) ==
    cardvalue([cards |-> dealer.cards \o SubSeq(LogCards(dealt'), 1, k - 1)])

\* C14 as the specification states it: in a running game dealers_turn
\* terminates for any finite card source and ends with the dealer's value
\* greater than 16, and changes no player's hand.
C14_EndsAbove16 ==
    [][DealersTurnCalled /\ running =>
        /\ dealers_turn_runs # {}
        /\ cardvalue(dealer') > 16
        /\ players' = players]_vars

\* C14: in a running game dealers_turn terminates for any finite card
\* source; it draws for the dealer only, one card at a time and only while
\* the dealer's value is 16 or less, draws nothing when the value is already
\* greater than 16, and changes no player's hand; it ends either without
\* error and with the dealer's value greater than 16, or with the failure of
\* the exhausted card source, the shoe empty and the value still 16 or less.
C14_DealersTurn ==
    [][DealersTurnCalled /\ running =>
        /\ dealers_turn_runs # {}
        /\ players' = players
        /\ current_player' = current_player
        /\ \A k \in DOMAIN dealt' : dealt'[k].to = ToDealer /\ ValueBefore(k) <= 16
        /\ dealer'.cards = dealer.cards \o LogCards(dealt')
        /\ deck'.left = deck.left - Len(dealt')
        /\ cardvalue(dealer) > 16 => dealt' = <<>> /\ raised' = NoError
        /\ raised' \in {NoError, "DeckExhausted"}
        /\ raised' = NoError => cardvalue(dealer') > 16
        /\ raised' = "DeckExhausted" => deck'.left = 0 /\ cardvalue(dealer') <= 16]_vars

\* the dealer draws two cards, the first one leaving the value at 16 or
\* less, and stands above 16
C14_Witness ==
    /\ call.op = "dealers_turn"
    /\ raised = NoError
    /\ running
    /\ Len(dealt) = 2
    /\ Len(dealer.cards) = 4
    /\ cardvalue(dealer) > 16
    /\ cardvalue(dealer) <= 21

----------------------------------------------------------------------------
(* Properties of the lifecycle handlers *)

\* the calls of start and stop that succeed: start in a game that is not
\* running, has a player and a shoe that holds the deal; stop by the
\* privileged id or by the first player
StartSucceeds ==
    /\ StartCalled
    /\ ~running
    /\ Len(players) >= 1
    /\ deck.left >= 2 * (Len(players) + 1)

StopSucceeds ==
    /\ StopCalled
    /\ \/ call'.arg = -1
       \/ players # <<>> /\ call'.arg = players[1].user_id

\* C15: on a successful start() or stop() every registered handler of that
\* kind is invoked exactly once, in registration order; a handler that
\* raises does not keep the handlers registered after it from running, does
\* not propagate to the caller and does not undo the state change (running
\* is true after start, false after stop).
C15_Handlers ==
    [][/\ StartSucceeds =>
            /\ invoked' = on_start_handlers
            /\ raised' = NoError
            /\ running' = TRUE
       /\ StopSucceeds =>
            /\ invoked' = on_stop_handlers
            /\ raised' = NoError
            /\ running' = FALSE]_vars

\* start with two start-handlers, the first of which raises: both are
\* invoked, start returns and the game runs
C15_Witness ==
    /\ call.op = "start"
    /\ raised = NoError
    /\ running
    /\ Len(dealt) = 2 * (Len(players) + 1)
    /\ Len(invoked) = 2
    /\ invoked[1].raises
    /\ ~invoked[2].raises
    /\ invoked = on_start_handlers

----------------------------------------------------------------------------
(* Properties of the deal *)

\* the receiver at position n (from 0) of the sequence of the players in
\* join order followed by the dealer
Position(n) ==
    IF n = Len(players) THEN ToDealer ELSE ToPlayer(players[n + 1].user_id)

\* C16: a successful start() with N players takes exactly 2*(N+1) cards
\* from the deck and deals them round-robin: the n-th card taken (n from 0)
\* goes to position n mod (N+1) of the players in join order followed by the
\* dealer; every participant gets one card before anyone gets a second.
C16_RoundRobin ==
    [][StartCalled /\ raised' = NoError =>
        LET N == Len(players)
        IN  /\ deck'.left = deck.left - 2 * (N + 1)
            /\ Len(dealt') = 2 * (N + 1)
            /\ \A n \in 0..(2 * (N + 1) - 1) : dealt'[n + 1].to = Position(n % (N + 1))
            /\ Len(players') = N
            /\ \A i \in 1..N :
                    players'[i].cards = players[i].cards
                        \o <<dealt'[i].card, dealt'[i + N + 1].card>>
            /\ dealer'.cards = dealer.cards
                        \o <<dealt'[N + 1].card, dealt'[2 * (N + 1)].card>>]_vars

\* two players: the third card goes to the dealer, the fourth to the first
\* player again
C16_Witness ==
    /\ call.op = "start"
    /\ raised = NoError
    /\ Len(players) = 2
    /\ Len(dealt) = 6
    /\ dealt[1].to = ToPlayer(players[1].user_id)
    /\ dealt[2].to = ToPlayer(players[2].user_id)
    /\ dealt[3].to = ToDealer
    /\ dealt[4].to = ToPlayer(players[1].user_id)
    /\ dealt[6].to = ToDealer
    /\ deck.left = RoundDeckSize - 6

----------------------------------------------------------------------------
(* Properties of the roster *)

\* the players already in the roster are in it after the step, in the same
\* positions and with the same ids
RosterKept ==
    /\ Len(players') >= Len(players)
    /\ \A i \in DOMAIN players : players'[i].user_id = players[i].user_id

\* C17: after any sequence of operations the roster holds at most
\* MAX_PLAYERS (5) players, no two of them share an id, and the roster is
\* append-only in join order: a successful add_player appends the new player
\* at the end, and no operation removes or reorders players already in it.
C17_Roster ==
    /\ [](Len(players) <= 5)
    /\ [](\A i, j \in DOMAIN players :
                players[i].user_id = players[j].user_id => i = j)
    /\ [][/\ RosterKept
          /\ AddPlayerCalled /\ raised' = NoError =>
                /\ Len(players') = Len(players) + 1
                /\ players'[Len(players')].user_id = call'.arg
          /\ ~(AddPlayerCalled /\ raised' = NoError) => Len(players') = Len(players)]_vars

\* the fifth player joins a roster of four: the roster is full, in join order
C17_Witness ==
    /\ call.op = "add_player"
    /\ raised = NoError
    /\ Len(players) = 5
    /\ players[5].user_id = call.arg
    /\ players[1].user_id # players[5].user_id

----------------------------------------------------------------------------
(* Properties of the turn cursor *)

\* C18: in every reachable state where the game is running the turn cursor
\* is either a valid index into the roster or the dealer sentinel, and once
\* the cursor is the dealer sentinel no operation moves it back to a player
\* index.
C18_Cursor ==
    /\ [](running =>
            \/ current_player = -1
            \/ current_player \in 0..(Len(players) - 1))
    /\ [][current_player = -1 => current_player' = -1]_vars

\* next_player called again on the dealer's turn: the cursor stays the
\* sentinel
C18_Witness ==
    /\ call.op = "next_player"
    /\ raised = NoError
    /\ running
    /\ current_player = -1
    /\ dealt = <<>>
    /\ Len(dealer.cards) >= 2
    /\ cardvalue(dealer) > 16

\* C20: immediately after every successful start(), including a start()
\* that follows a stop() of a round in which the dealer had played, the
\* turn cursor designates the first player of the roster (index 0).
C20_CursorAtFirstPlayer ==
    call.op = "start" /\ raised = NoError => current_player = 0

\* what the code does: a round started after the dealer has played begins
\* with the cursor on the sentinel, and the first draw_card of the round goes
\* to the last player of the roster
C20_DrawOfNewRound ==
    [][/\ call.op = "start" /\ raised = NoError /\ current_player = -1
       /\ DrawCalled /\ deck.left > 0
       => /\ players'[Len(players)].cards
                = Append(players[Len(players)].cards, dealt'[1].card)
          /\ \A i \in 1..(Len(players) - 1) : players'[i] = players[i]]_vars

----------------------------------------------------------------------------
(* Properties of the order of the lists of evaluation *)

\* the position of a player in the roster
RosterPosition(p) == CHOOSE i \in DOMAIN players : players[i] = p

\* a list is ordered by value descending, players of equal value in roster
\* order
Ordered(list) ==
    \A i, j \in DOMAIN list :
        i < j =>
            /\ cardvalue(list[i]) >= cardvalue(list[j])
            /\ cardvalue(list[i]) = cardvalue(list[j])
                    => RosterPosition(list[i]) < RosterPosition(list[j])

\* C19: each of the three lists evaluation() returns is ordered by player
\* value descending, and players with equal value inside one list keep their
\* relative order from before the sort: roster order for the won and tie
\* lists, and for the lost list too, in which the players who are not busted
\* are appended in roster order before the busted ones in roster order and
\* no busted player has the value of one who is not.
C19_Sorted ==
    Evaluated =>
        /\ Ordered(returned.won)
        /\ Ordered(returned.tie)
        /\ Ordered(returned.lost)

\* two players win with the same value: the list holds them in roster order
C19_Witness ==
    /\ Evaluated
    /\ Len(players) = 2
    /\ returned.won = players
    /\ cardvalue(players[1]) = cardvalue(players[2])
    /\ players[1].cards # players[2].cards

====
